---- MODULE Spec2Model ----
(***************************************************************************)
(* A model of predict.py, the March Madness bracket simulator.             *)
(*                                                                         *)
(* Probabilities are kept as natural numbers in units of 0.0001 (the value *)
(* the loader gives to the "<0.1" marker), so that every value of a data   *)
(* file is an integer; a conditional probability is the exact fraction     *)
(* <<numerator, denominator>> of two such values.  The draw of             *)
(* random.uniform(0, odds_range) is a choice among values of the same      *)
(* unit.                                                                   *)
(*                                                                         *)
(* Python objects are heap cells: a Team object is the reference           *)
(* <<bracket id, team index, copy tag>>, a Region object is                *)
(* <<bracket id, region index>>; seed_slot, the only attribute of a Team   *)
(* that is ever reassigned, is a function on the Team references.          *)
(***************************************************************************)
EXTENDS Integers, Sequences, FiniteSets, TLC

\* ------------------------------------------------------------------------
\* Constants of the program
\* ------------------------------------------------------------------------

\* max_region_round
max_region_round == 5

\* Python's None where a number is expected (round_odds entries)
None == -1

\* No Team object (Python's None where a Team is expected)
NoTeam == <<>>

\* A field of a data line is a natural number (a decimal, in units of
\* 0.0001), the empty string, or the marker "<0.1".
EmptyField == -1
BelowField == -2

\* float value given to the "<0.1" marker: .0001, one unit
BelowValue == 1

\* Number of units in probability 1.0
Scale == 10000

\* ------------------------------------------------------------------------
\* Bounds of the model
\* ------------------------------------------------------------------------

\* stands for num_champion_simulation_runs (20000 in the program)
NumRuns == 2
ChampionRuns == 300

\* stands for desired_champion_simulation_runs (10000 in the program)
NumJobs == 2

\* The calls of Bracket.simulate that a process counts (later calls leave
\* the count as it is)
MaxCalls == 2

\* ------------------------------------------------------------------------
\* Sequences
\* ------------------------------------------------------------------------

Range(s) == {s[i] : i \in DOMAIN s}

\* The elements of a set of positions, in ascending order
Ascending(positions) ==
    [k \in 1..Cardinality(positions) |->
        CHOOSE n \in positions : Cardinality({m \in positions : m < n}) = k - 1]

\* list.sort(key=...): stable, ascending; keys[i] is the key of s[i]
SortAsc(s, keys) ==
    LET Place(i) == Cardinality({j \in DOMAIN s :
                        keys[j] < keys[i] \/ (keys[j] = keys[i] /\ j < i)}) + 1
    IN  [k \in DOMAIN s |-> s[CHOOSE i \in DOMAIN s : Place(i) = k]]

\* list.sort(key=..., reverse=True): stable, descending
SortDesc(s, keys) ==
    LET Place(i) == Cardinality({j \in DOMAIN s :
                        keys[j] > keys[i] \/ (keys[j] = keys[i] /\ j < i)}) + 1
    IN  [k \in DOMAIN s |-> s[CHOOSE i \in DOMAIN s : Place(i) = k]]

\* zip(a, b): stops at the shorter list
Zip(a, b) ==
    LET n == IF Len(a) <= Len(b) THEN Len(a) ELSE Len(b)
    IN  [i \in 1..n |-> <<a[i], b[i]>>]

\* ------------------------------------------------------------------------
\* Python 2 str and dict
\* ------------------------------------------------------------------------

\* The characters of the strings that are keys of a dict or are compared:
\* a string is known by its piece before the "-" and its piece after it
Decimal(n) ==
    IF n < 10 THEN <<48 + n>> ELSE <<48 + (n \div 10), 48 + (n % 10)>>
Heads ==
    [Midwest |-> <<77, 105, 100, 119, 101, 115, 116>>,
     South |-> <<83, 111, 117, 116, 104>>,
     East |-> <<69, 97, 115, 116>>,
     West |-> <<87, 101, 115, 116>>,
     North |-> <<78, 111, 114, 116, 104>>]
Tails ==
    {<<ToString(n), Decimal(n)>> : n \in 1..16}
    \cup {<<"11b", <<49, 49, 98>>>>, <<"16b", <<49, 54, 98>>>>, <<"16c", <<49, 54, 99>>>>,
          <<"a", <<97>>>>, <<"b", <<98>>>>, <<"c", <<99>>>>}
Ascii ==
    {<<h, Heads[h]>> : h \in DOMAIN Heads}
    \cup {<<h \o "-" \o t[1], Heads[h] \o <<45>> \o t[2]>> : h \in DOMAIN Heads, t \in Tails}

\* The bytes of a string
ord(s) == (CHOOSE e \in Ascii : e[1] = s)[2]

\* a < b for two strings given by their bytes
str_lt(a, b) ==
    \/ \E k \in DOMAIN a \cap DOMAIN b :
          /\ a[k] < b[k]
          /\ \A i \in 1..(k - 1) : a[i] = b[i]
    \/ /\ Len(a) < Len(b)
       /\ \A i \in DOMAIN a : a[i] = b[i]

\* A hash is a number of 64 bits, kept as its 13 digits to the base 32 with
\* the lowest digit first
HashDigits == 13
Base == 32

RECURSIVE Xor(_, _)
Xor(a, b) ==
    IF a = 0 THEN b
    ELSE IF b = 0 THEN a
    ELSE ((a + b) % 2) + 2 * Xor(a \div 2, b \div 2)

\* The hash of an int n >= 0 is n
int_hash(n) ==
    << n % Base, (n \div Base) % Base, (n \div 1024) % Base, (n \div 32768) % Base,
       (n \div 1048576) % Base, (n \div 33554432) % Base, n \div 1073741824,
       0, 0, 0, 0, 0, 0 >>

\* x * m modulo 2^64, from digit k on
RECURSIVE TimesFrom(_, _, _, _)
TimesFrom(x, m, k, carry) ==
    IF k > HashDigits THEN <<>>
    ELSE LET v == x[k] * m + carry
         IN  << IF k = HashDigits THEN v % 16 ELSE v % Base >>
             \o TimesFrom(x, m, k + 1, v \div Base)

\* x ^ c for c < 1024
XorLow(x, c) ==
    [x EXCEPT ![1] = Xor(@, c % Base), ![2] = Xor(@, c \div Base)]

\* x = (1000003*x) ^ c for the bytes of s from position k on
RECURSIVE HashFrom(_, _, _)
HashFrom(x, s, k) ==
    IF k > Len(s) THEN x
    ELSE HashFrom(XorLow(TimesFrom(x, 1000003, 1, 0), s[k]), s, k + 1)

\* The hash of a str, from its bytes
string_hash(s) ==
    IF s = <<>> THEN int_hash(0)
    ELSE LET x == XorLow(HashFrom(int_hash(s[1] * 128), s, 1), Len(s))
         IN  IF x = [k \in 1..HashDigits |-> IF k = HashDigits THEN 15 ELSE Base - 1]
             THEN [x EXCEPT ![1] = Base - 2]
             ELSE x

\* hash(s) for the strings of the model
Hashes == {<<e[1], string_hash(e[2])>> : e \in Ascii}
hash(s) == (CHOOSE e \in Hashes : e[1] = s)[2]

\* The table of a dict is a sequence of slots: Unused, or a key and its hash
Unused == <<>>
MinSize == 8
NewTable(size) == [i \in 1..size |-> Unused]

\* The lowest 25 bits of a hash
Low(h) == h[1] + Base * (h[2] + Base * (h[3] + Base * (h[4] + Base * h[5])))

\* The slot of a key: the first slot of its probe sequence that is unused or
\* holds the key
RECURSIVE lookdict(_, _, _, _)
lookdict(table, key, i, perturb) ==
    LET ep == table[(i % Len(table)) + 1]
    IN  IF ep = Unused \/ ep[1] = key THEN (i % Len(table)) + 1
        ELSE lookdict(table, key, (5 * i + Low(perturb) + 1) % (Base ^ 5),
                      Tail(perturb) \o <<0>>)

\* The filled slots of a table, in the order of the table
RECURSIVE EntriesFrom(_, _)
EntriesFrom(table, i) ==
    IF i > Len(table) THEN <<>>
    ELSE IF table[i] = Unused THEN EntriesFrom(table, i + 1)
    ELSE <<table[i]>> \o EntriesFrom(table, i + 1)
Entries(table) == EntriesFrom(table, 1)

\* The entries of a sequence put into a table one by one, from entry k on
RECURSIVE insertdict_clean(_, _, _)
insertdict_clean(table, entries, k) ==
    IF k > Len(entries) THEN table
    ELSE insertdict_clean(
            [table EXCEPT ![lookdict(table, entries[k][1], Low(entries[k][2]),
                                     entries[k][2])] = entries[k]],
            entries, k + 1)

\* The smallest size above minused
RECURSIVE NewSize(_, _)
NewSize(size, minused) ==
    IF size > minused THEN size ELSE NewSize(2 * size, minused)

dictresize(table, minused) ==
    insertdict_clean(NewTable(NewSize(MinSize, minused)), Entries(table), 1)

\* d[key] = value for a key with hash h in a table with used filled slots:
\* a new key takes a slot and the table grows when two thirds of it are filled
dict_set_item(table, used, key, h) ==
    LET i == lookdict(table, key, Low(h), h)
    IN  IF table[i] # Unused THEN table
        ELSE IF (used + 1) * 3 >= Len(table) * 2
        THEN dictresize([table EXCEPT ![i] = <<key, h>>],
                        (IF used + 1 > 50000 THEN 2 ELSE 4) * (used + 1))
        ELSE [table EXCEPT ![i] = <<key, h>>]

\* The table of a dict that was empty and got the keys of a sequence in turn,
\* the keys all different; hashes[k] is the hash of keys[k]
RECURSIVE dict_from(_, _, _, _)
dict_from(table, keys, hashes, k) ==
    IF k > Len(keys) THEN table
    ELSE dict_from(dict_set_item(table, k - 1, keys[k], hashes[k]), keys, hashes, k + 1)

\* The keys of that dict in the order of iteration
dict_keys(keys, hashes) ==
    LET entries == Entries(dict_from(NewTable(MinSize), keys, hashes, 1))
    IN  [k \in DOMAIN entries |-> entries[k][1]]

\* ------------------------------------------------------------------------
\* Team.init_from_line
\* ------------------------------------------------------------------------

\* one item of line_data[3:10]
ParseItem(item) ==
    IF item = EmptyField THEN None
    ELSE IF item = BelowField THEN BelowValue
    ELSE item

\* round_odds of a line
ParseOdds(fields) ==
    [i \in 1..(IF Len(fields) <= 7 THEN Len(fields) ELSE 7) |-> ParseItem(fields[i])]

\* "Make the probabilities conditional": entry i is None, or the fraction
\* <<n, d>> in units of 1.0 (round_odds[i] itself is the fraction
\* <<round_odds[i], Scale>>).
Conditional(round_odds) ==
    [i \in 1..Len(round_odds) |->
        IF i = 1 \/ round_odds[i - 1] = None
        THEN IF round_odds[i] = None THEN <<None, 1>> ELSE <<round_odds[i], Scale>>
        ELSE <<round_odds[i], round_odds[i - 1]>>]

\* The division odd/prev_round raises when odd is None (TypeError) or when
\* prev_round is 0.0 (ZeroDivisionError)
ConditionalRaises(round_odds) ==
    \E i \in 2..Len(round_odds) :
        /\ round_odds[i - 1] # None
        /\ (round_odds[i] = None \/ round_odds[i - 1] = 0)

init_from_line(line) ==
    [region |-> line.region,
     seed |-> line.seed,
     name |-> line.name,
     round_odds |-> ParseOdds(line.fields),
     conditional_round_odds |-> Conditional(ParseOdds(line.fields))]

\* Two fractions are the same number
SameFraction(f, g) == f[1] * g[2] = g[1] * f[2]

\* ------------------------------------------------------------------------
\* Data files (the lines after the header)
\* ------------------------------------------------------------------------

Line(region, seed, name, fields) ==
    [region |-> region, seed |-> seed, name |-> name, fields |-> fields]

\* A contender: no FIRST FOUR value, one unit in every later round
Open == <<EmptyField, 1, 1, 1, 1, 1, 1>>
\* A play-in contender: a FIRST FOUR value as well
OpenFirstFour == <<1, 1, 1, 1, 1, 1, 1>>
\* A line that ends after ROUND OF 32 with probability 0
OutIn32 == <<EmptyField, 0>>
\* Lines that end after a later round with probability 0
OutIn16 == <<EmptyField, 1, 0>>
OutIn8 == <<EmptyField, 1, 1, 0>>
OutIn4 == <<EmptyField, 1, 1, 1, 0>>
OutInFinals == <<EmptyField, 1, 1, 1, 1, 0>>

\* A region with one entrant per seed of 1..Len(fields); fields[s] holds the
\* fields of the seed-s entrant
RegionLines(region, fields) ==
    [s \in DOMAIN fields |-> Line(region, s, region \o "-" \o ToString(s), fields[s])]

\* Sixteen seeds, every matchup open
Region16Open(region) == RegionLines(region, [s \in 1..16 |-> Open])

\* Sixteen seeds with play-ins at seeds 11 and 16; seeds 9, 10 and 12..15
\* cannot win their first game
Region16PlayIn(region) ==
    RegionLines(region,
        [s \in 1..16 |-> IF s \in {11, 16} THEN OpenFirstFour
                         ELSE IF s >= 9 THEN OutIn32 ELSE Open])
    \o << Line(region, 11, region \o "-11b", OpenFirstFour),
          Line(region, 16, region \o "-16b", OpenFirstFour) >>

\* Sixteen seeds in which every game of the region goes to the entrant
\* listed first in the pairing (the other entrant's line ends with
\* probability 0 in that round), so that the seed-1 entrant wins the region;
\* top is the line of the seed-1 entrant.
RegionChalk(region, top) ==
    RegionLines(region,
        [s \in 1..16 |-> IF s = 1 THEN top
                         ELSE IF s >= 9 THEN OutIn32
                         ELSE IF s >= 5 THEN OutIn16
                         ELSE IF s >= 3 THEN OutIn8
                         ELSE OutIn4])

\* RegionChalk with the line of the seed-16 entrant given as well
RegionChalkLast(region, top, last) ==
    RegionLines(region,
        [s \in 1..16 |-> IF s = 1 THEN top
                         ELSE IF s = 16 THEN last
                         ELSE IF s >= 9 THEN OutIn32
                         ELSE IF s >= 5 THEN OutIn16
                         ELSE IF s >= 3 THEN OutIn8
                         ELSE OutIn4])

\* As RegionChalk, but the game 1 v 16 of round 2 and the region final
\* between the seeds 1 or 16 and 2 are open
RegionUpset(region) ==
    RegionLines(region,
        [s \in 1..16 |-> IF s \in {1, 2, 16} THEN Open
                         ELSE IF s >= 9 THEN OutIn32
                         ELSE IF s >= 5 THEN OutIn16
                         ELSE OutIn8])

\* The line of a region winner that cannot win its FINALS game, and of one
\* that cannot win the CHAMPIONS game
OutInChampions == <<EmptyField, 1, 1, 1, 1, 1, 0>>

\* Small and irregular regions
RegionThreeSame(region) ==
    << Line(region, 1, region \o "-a", OpenFirstFour),
       Line(region, 1, region \o "-b", OpenFirstFour),
       Line(region, 1, region \o "-c", OpenFirstFour) >>
RegionTwoSame(region) ==
    << Line(region, 1, region \o "-a", <<Scale>>),
       Line(region, 1, region \o "-b", <<0>>) >>
RegionFive(region) == RegionLines(region, [s \in 1..5 |-> Open])

\* Regions whose seeds the dict round2_teams does not keep in ascending
\* order: two play-ins, and a play-in with a seed of three entrants after it
RegionOneEight(region) ==
    << Line(region, 1, region \o "-1", OpenFirstFour),
       Line(region, 1, region \o "-a", OpenFirstFour),
       Line(region, 8, region \o "-8", OpenFirstFour),
       Line(region, 8, region \o "-b", OpenFirstFour) >>
RegionEightEleven(region) ==
    << Line(region, 3, region \o "-3", Open),
       Line(region, 8, region \o "-8", OpenFirstFour),
       Line(region, 11, region \o "-11", OpenFirstFour),
       Line(region, 8, region \o "-b", OpenFirstFour),
       Line(region, 11, region \o "-11b", OpenFirstFour),
       Line(region, 11, region \o "-c", OpenFirstFour) >>

\* Files with the four regions.  In FileLean only the game Midwest v West is
\* open; in FileUpset the West region has open games as well; in FileOpen
\* the three championship games are open.
FileLean ==
    RegionChalk("Midwest", Open) \o RegionChalk("South", OutInChampions)
    \o RegionChalk("East", OutInFinals) \o RegionChalk("West", Open)
FileUpset ==
    RegionChalk("Midwest", Open) \o RegionChalk("South", OutInChampions)
    \o RegionChalk("East", OutInFinals) \o RegionUpset("West")
FileOpen ==
    RegionChalk("Midwest", Open) \o RegionChalk("South", Open)
    \o RegionChalk("East", Open) \o RegionChalk("West", Open)

\* FileLean with the game South v East open as well
FileSemi ==
    RegionChalk("Midwest", Open) \o RegionChalk("South", OutInChampions)
    \o RegionChalk("East", OutInChampions) \o RegionChalk("West", Open)

\* FileLean with a region name that Bracket.simulate does not know, and
\* FileLean without the South region
FileNorth ==
    RegionChalk("Midwest", Open) \o RegionChalk("South", OutInChampions)
    \o RegionChalk("East", OutInFinals) \o RegionChalk("North", Open)
FileNoSouth ==
    RegionChalk("Midwest", Open) \o RegionChalk("East", OutInFinals)
    \o RegionChalk("West", Open)

\* A play-in entrant that cannot win its ROUND OF 32 game
PlayInOutIn32 == <<1, 0>>

\* FileLean with two entrants of seed 16 in the Midwest region, and with three
FilePlayIn ==
    RegionChalkLast("Midwest", Open, PlayInOutIn32)
    \o << Line("Midwest", 16, "Midwest-16b", PlayInOutIn32) >>
    \o RegionChalk("South", OutInChampions)
    \o RegionChalk("East", OutInFinals) \o RegionChalk("West", Open)
FileThreeSame ==
    RegionChalkLast("Midwest", Open, PlayInOutIn32)
    \o << Line("Midwest", 16, "Midwest-16b", PlayInOutIn32),
          Line("Midwest", 16, "Midwest-16c", PlayInOutIn32) >>
    \o RegionChalk("South", OutInChampions)
    \o RegionChalk("East", OutInFinals) \o RegionChalk("West", Open)

\* The data files of the model, by name
Files ==
    [Region16Open |-> Region16Open("Midwest"),
     Region16PlayIn |-> Region16PlayIn("Midwest"),
     RegionThreeSame |-> RegionThreeSame("Midwest"),
     RegionTwoSame |-> RegionTwoSame("Midwest"),
     RegionFive |-> RegionFive("Midwest"),
     RegionOneEight |-> RegionOneEight("Midwest"),
     RegionEightEleven |-> RegionEightEleven("Midwest"),
     FileLean |-> FileLean,
     FileUpset |-> FileUpset,
     FileOpen |-> FileOpen,
     FileSemi |-> FileSemi,
     FileNorth |-> FileNorth,
     FileNoSouth |-> FileNoSouth,
     FilePlayIn |-> FilePlayIn,
     FileThreeSame |-> FileThreeSame]

\* Files with a single region
RegionFiles ==
    {"Region16Open", "Region16PlayIn", "RegionThreeSame", "RegionTwoSame", "RegionFive",
     "RegionOneEight", "RegionEightEleven"}

\* ------------------------------------------------------------------------
\* State
\* ------------------------------------------------------------------------

VARIABLES
    teams,          \* the Team objects built by Bracket.fromfile, by line
    mode,           \* "single", "champion" (-c) or "find" (-f)
    desired,        \* args.find_champion
    seed_slot,      \* Team object -> seed_slot
    region,         \* Region object -> [name, teams, teams_by_round]
    bracket,        \* Bracket object -> [regions, finalists, champion]
    proc,           \* process -> its position and the locals of its frames
    runs,           \* predictor: the loop index i of champion mode
    champions,      \* predictor: champions, Team object -> count
    results,        \* SimulateDesiredChampionResults: the two count mappings
    count           \* MultiWorker.count

vars == <<teams, mode, desired, seed_slot, region, bracket, proc, runs,
          champions, results, count>>

\* The main process; the jobs of find mode are the processes 1..NumJobs
Main == 0
Jobs == 1..NumJobs

\* Team and Region objects
TeamRef(b, i) == <<b, i, 0>>
RegionRef(b, k) == <<b, k>>

\* bracket.finalists = None
NoFinalists == <<>>

\* Attributes of a Team object that are never reassigned
seed(t) == teams[t[2]].seed
name(t) == teams[t[2]].name
round_odds(t) == teams[t[2]].round_odds
conditional_round_odds(t) == teams[t[2]].conditional_round_odds

\* str(team); str(None) is "None"
str(t) == IF t = NoTeam THEN "None" ELSE name(t)

\* ------------------------------------------------------------------------
\* Bracket.fromfile
\* ------------------------------------------------------------------------

\* The region names of a file in the order of regions.values(): the names
\* become keys of the dict regions in the order of their first line
RegionNames(lines) ==
    LET firsts == Ascending({n \in DOMAIN lines :
                                \A m \in 1..(n - 1) : lines[m].region # lines[n].region})
        keys == [k \in DOMAIN firsts |-> lines[firsts[k]].region]
    IN  dict_keys(keys, [k \in DOMAIN keys |-> hash(keys[k])])

\* The lines of one region, in file order
RegionMembers(lines, rname) == Ascending({n \in DOMAIN lines : lines[n].region = rname})

\* Every line of the file parses
Loads(lines) == \A i \in DOMAIN lines : ~ConditionalRaises(ParseOdds(lines[i].fields))

\* The regions of the loaded bracket: each list of teams sorted by seed
fromfile_regions(lines) ==
    LET names == RegionNames(lines)
    IN  [r \in {RegionRef(0, k) : k \in 1..Len(names)} |->
            LET members == RegionMembers(lines, names[r[2]])
            IN  [name |-> names[r[2]],
                 teams |-> SortAsc([j \in 1..Len(members) |-> TeamRef(0, members[j])],
                                   [j \in 1..Len(members) |-> lines[members[j]].seed]),
                 teams_by_round |-> <<>>]]

fromfile_bracket(lines) ==
    [regions |-> [k \in 1..Len(RegionNames(lines)) |-> RegionRef(0, k)],
     finalists |-> NoFinalists,
     champion |-> NoTeam]

\* ------------------------------------------------------------------------
\* Processes
\* ------------------------------------------------------------------------

NoPick ==
    [team1 |-> NoTeam, team2 |-> NoTeam, round_number |-> 0, team1_prob |-> 0,
     team2_prob |-> 0, num |-> 0, winner |-> NoTeam, slot1 |-> 0, slot2 |-> 0]

\* A process that is in no frame.  Besides its position and locals a process
\* keeps a record of what it did: last, its last call of pick_winner in the
\* current Region.simulate or after it; stale, whether the region it simulates
\* had a team with seed_slot # seed when the simulation began; calls, the
\* number of its calls of Bracket.simulate up to MaxCalls.
Idle(pc, b) ==
    [pc |-> pc, b |-> b, ri |-> 0, round_number |-> 0, round2_teams |-> <<>>,
     gi |-> 0, pairs |-> <<>>, this_round_teams |-> <<>>,
     midwest |-> NoTeam, south |-> NoTeam, east |-> NoTeam, west |-> NoTeam,
     finalist_1 |-> NoTeam, last |-> NoPick, err |-> "", stale |-> FALSE,
     calls |-> 0]

\* The state after Bracket.fromfile(args.input) in the given mode; jobs are
\* the jobs that find mode adds to the pool
LoadedJobs(f, m, d, jobs) ==
    /\ Loads(Files[f])
    /\ teams = [i \in DOMAIN Files[f] |-> init_from_line(Files[f][i])]
    /\ mode = m
    /\ desired = d
    /\ seed_slot = [t \in {TeamRef(0, i) : i \in DOMAIN Files[f]} |-> Files[f][t[2]].seed]
    /\ region = fromfile_regions(Files[f])
    /\ bracket = (0 :> fromfile_bracket(Files[f]))
    /\ proc = IF m = "find"
              THEN [p \in {Main} \cup jobs |->
                        IF p = Main THEN Idle("join", 0) ELSE Idle("queued", p)]
              ELSE [p \in {Main} |-> Idle("simulate", 0)]
    /\ runs = 0
    /\ champions = <<>>
    /\ results = [region_counts |-> <<>>, finalist_counts |-> <<>>]
    /\ count = 0

Loaded(f, m, d) == LoadedJobs(f, m, d, Jobs)

\* ------------------------------------------------------------------------
\* pick_winner
\* ------------------------------------------------------------------------

\* Team.__getitem__: the value used for round i
Team_getitem(t, i) == round_odds(t)[i]

\* What the two lookups and the addition of pick_winner raise, "" if nothing
PickRaises(team1, team2, round_number) ==
    IF team1 = NoTeam THEN "TypeError"
    ELSE IF round_number > Len(round_odds(team1)) THEN "IndexError"
    ELSE IF team2 = NoTeam THEN "TypeError"
    ELSE IF round_number > Len(round_odds(team2)) THEN "IndexError"
    ELSE IF Team_getitem(team1, round_number) = None
            \/ Team_getitem(team2, round_number) = None THEN "TypeError"
    ELSE ""

\* A draw that is always the upper end of the range
Draws_High(team1, team2, round_number) ==
    {Team_getitem(team1, round_number) + Team_getitem(team2, round_number)}

\* The values of random.uniform(0, odds_range) that the model draws: of
\* every interval of the range on which pick_winner decides the same way, the
\* largest value (team1_prob, the last draw at which team1 wins, and
\* odds_range itself)
Draws(team1, team2, round_number) ==
    {Team_getitem(team1, round_number),
     Team_getitem(team1, round_number) + Team_getitem(team2, round_number)}

\* The returned team
pick_winner(team1, team2, round_number, num) ==
    IF num <= Team_getitem(team1, round_number) THEN team1 ELSE team2

\* The seed given to the winner's seed_slot when the loser brings a smaller one
LoserSeed(loser) == seed(loser)

\* A pick_winner that gives the loser's seed to the winner whatever the
\* winner's seed_slot is
pick_winner_slots_Always(slots, team1, team2, round_number, num) ==
    IF num <= Team_getitem(team1, round_number)
    THEN [slots EXCEPT ![team1] = LoserSeed(team2)]
    ELSE [slots EXCEPT ![team2] = LoserSeed(team1)]

\* seed_slot after the call
pick_winner_slots(slots, team1, team2, round_number, num) ==
    IF num <= Team_getitem(team1, round_number)
    THEN IF LoserSeed(team2) < slots[team1]
         THEN [slots EXCEPT ![team1] = LoserSeed(team2)] ELSE slots
    ELSE IF LoserSeed(team1) < slots[team2]
         THEN [slots EXCEPT ![team2] = LoserSeed(team1)] ELSE slots

\* The record of a call, kept by the calling process
Pick(team1, team2, round_number, num) ==
    [team1 |-> team1, team2 |-> team2, round_number |-> round_number,
     team1_prob |-> Team_getitem(team1, round_number),
     team2_prob |-> Team_getitem(team2, round_number),
     num |-> num, winner |-> pick_winner(team1, team2, round_number, num),
     slot1 |-> seed_slot[team1], slot2 |-> seed_slot[team2]]

\* An exception leaves the process where it is raised
Raise(p, exc) == [proc EXCEPT ![p].pc = "raised", ![p].err = exc]

\* ------------------------------------------------------------------------
\* Region.simulate
\* ------------------------------------------------------------------------

\* The region that process p is simulating
Cur(p) == bracket[proc[p].b].regions[proc[p].ri]

\* A Region.simulate that does not reset the seed slots
reset_seed_slots_None(slots, r) == slots

\* Region.reset_seed_slots
reset_seed_slots(slots, r) ==
    [t \in DOMAIN slots |-> IF t \in Range(region[r].teams) THEN seed(t) ELSE slots[t]]

\* round2_teams: the teams of each seed, in the order in which the dict is
\* iterated; the seeds become its keys in the order of their first team
GroupBySeed(ts) ==
    LET firsts == Ascending({n \in DOMAIN ts :
                                \A m \in 1..(n - 1) : seed(ts[m]) # seed(ts[n])})
        keys == [k \in DOMAIN firsts |-> seed(ts[firsts[k]])]
        seeds == dict_keys(keys, [k \in DOMAIN keys |-> int_hash(keys[k])])
    IN  [g \in DOMAIN seeds |->
            LET members == Ascending({n \in DOMAIN ts : seed(ts[n]) = seeds[g]})
            IN  [i \in DOMAIN members |-> ts[members[i]]]]

\* A loop over the seeds that handles the seeds with two teams and lets every
\* other seed pass
NextGroup_OnlyPairs(groups, g) ==
    IF \E j \in g..Len(groups) : Len(groups[j]) = 2
    THEN CHOOSE j \in g..Len(groups) :
            /\ Len(groups[j]) = 2
            /\ \A i \in g..(j - 1) : Len(groups[i]) # 2
    ELSE Len(groups) + 1

\* The next seed, from position g on, that does not have exactly one team
NextGroup(groups, g) ==
    IF \E j \in g..Len(groups) : Len(groups[j]) # 1
    THEN CHOOSE j \in g..Len(groups) :
            /\ Len(groups[j]) # 1
            /\ \A i \in g..(j - 1) : Len(groups[i]) = 1
    ELSE Len(groups) + 1

\* Region.simulate, up to the loop over the seeds
Region_simulate(p) ==
    /\ proc[p].pc = "region"
    /\ LET r == Cur(p)
           groups == GroupBySeed(region[r].teams)
       IN  /\ region' = [region EXCEPT ![r].teams_by_round = <<>>]
           /\ seed_slot' = reset_seed_slots(seed_slot, r)
           /\ proc' = [proc EXCEPT ![p].pc = "playin",
                                   ![p].round2_teams = groups,
                                   ![p].gi = NextGroup(groups, 1),
                                   ![p].last = NoPick,
                                   ![p].stale = \E t \in Range(region[r].teams) :
                                                    seed_slot[t] # seed(t)]
    /\ UNCHANGED <<teams, mode, desired, bracket, runs, champions, results, count>>

\* A seed with two teams: the play-in matchup
PlayIn(p) ==
    /\ proc[p].pc = "playin"
    /\ proc[p].gi <= Len(proc[p].round2_teams)
    /\ Len(proc[p].round2_teams[proc[p].gi]) = 2
    /\ LET g == proc[p].round2_teams[proc[p].gi]
       IN  IF PickRaises(g[1], g[2], 1) # ""
           THEN /\ proc' = Raise(p, PickRaises(g[1], g[2], 1))
                /\ UNCHANGED seed_slot
           ELSE \E num \in Draws(g[1], g[2], 1) :
                /\ seed_slot' = pick_winner_slots(seed_slot, g[1], g[2], 1, num)
                /\ LET groups == [proc[p].round2_teams EXCEPT
                                     ![proc[p].gi] = <<pick_winner(g[1], g[2], 1, num)>>]
                   IN  proc' = [proc EXCEPT ![p].round2_teams = groups,
                                            ![p].gi = NextGroup(groups, proc[p].gi),
                                            ![p].last = Pick(g[1], g[2], 1, num)]
    /\ UNCHANGED <<teams, mode, desired, region, bracket, runs, champions, results, count>>

\* A seed with three teams or more
PlayInFail(p) ==
    /\ proc[p].pc = "playin"
    /\ proc[p].gi <= Len(proc[p].round2_teams)
    /\ Len(proc[p].round2_teams[proc[p].gi]) # 2
    /\ proc' = Raise(p, "Exception")
    /\ UNCHANGED <<teams, mode, desired, seed_slot, region, bracket, runs, champions,
                   results, count>>

\* self.teams_by_round[1]
RecordRound1(p) ==
    /\ proc[p].pc = "playin"
    /\ proc[p].gi > Len(proc[p].round2_teams)
    /\ region' = [region EXCEPT ![Cur(p)].teams_by_round =
                     << [g \in DOMAIN proc[p].round2_teams |-> proc[p].round2_teams[g][1]] >>]
    /\ proc' = [proc EXCEPT ![p].pc = "round", ![p].round_number = 2,
                            ![p].round2_teams = <<>>, ![p].gi = 0]
    /\ UNCHANGED <<teams, mode, desired, seed_slot, bracket, runs, champions, results, count>>

\* prev_round_teams after its sort by seed_slot
SortedPrev(r, round_number) ==
    LET prev_round_teams == region[r].teams_by_round[round_number - 1]
    IN  SortAsc(prev_round_teams,
                [i \in DOMAIN prev_round_teams |-> seed_slot[prev_round_teams[i]]])

\* A split that leaves the first team of the lower half out
Pairing_ShortLowHalf(prev) ==
    LET half_num_teams == Len(prev) \div 2
        high_seeds == SubSeq(prev, 1, half_num_teams)
        rest == SubSeq(prev, half_num_teams + 2, Len(prev))
        low_seeds == SortDesc(rest, [i \in DOMAIN rest |-> seed_slot[rest[i]]])
    IN  Zip(high_seeds, low_seeds)

\* zip(high_seeds, low_seeds)
Pairing(prev) ==
    LET half_num_teams == Len(prev) \div 2
        high_seeds == SubSeq(prev, 1, half_num_teams)
        rest == SubSeq(prev, half_num_teams + 1, Len(prev))
        low_seeds == SortDesc(rest, [i \in DOMAIN rest |-> seed_slot[rest[i]]])
    IN  Zip(high_seeds, low_seeds)

\* The head of a standard round: the previous round's list is sorted in
\* place and split into the pairs of this round
BeginRound(p) ==
    /\ proc[p].pc = "round"
    /\ proc[p].round_number <= max_region_round
    /\ region' = [region EXCEPT
                     ![Cur(p)].teams_by_round[proc[p].round_number - 1] =
                         SortedPrev(Cur(p), proc[p].round_number)]
    /\ proc' = [proc EXCEPT
                   ![p].pc = "match",
                   ![p].pairs = Pairing(region'[Cur(p)].teams_by_round[proc[p].round_number - 1]),
                   ![p].this_round_teams = <<>>]
    /\ UNCHANGED <<teams, mode, desired, seed_slot, bracket, runs, champions, results, count>>

\* The next matchup of the round
Matchup(p) ==
    /\ proc[p].pc = "match"
    /\ proc[p].pairs # <<>>
    /\ LET team1 == proc[p].pairs[1][1]
           team2 == proc[p].pairs[1][2]
           rn == proc[p].round_number
       IN  IF PickRaises(team1, team2, rn) # ""
           THEN /\ proc' = Raise(p, PickRaises(team1, team2, rn))
                /\ UNCHANGED seed_slot
           ELSE \E num \in Draws(team1, team2, rn) :
                /\ seed_slot' = pick_winner_slots(seed_slot, team1, team2, rn, num)
                /\ proc' = [proc EXCEPT
                               ![p].pairs = Tail(proc[p].pairs),
                               ![p].this_round_teams =
                                   Append(proc[p].this_round_teams,
                                          pick_winner(team1, team2, rn, num)),
                               ![p].last = Pick(team1, team2, rn, num)]
    /\ UNCHANGED <<teams, mode, desired, region, bracket, runs, champions, results, count>>

\* The end of a standard round: the winners are recorded, sorted by seed
EndRound(p) ==
    /\ proc[p].pc = "match"
    /\ proc[p].pairs = <<>>
    /\ region' = [region EXCEPT ![Cur(p)].teams_by_round =
                     Append(region[Cur(p)].teams_by_round,
                            SortAsc(proc[p].this_round_teams,
                                    [i \in DOMAIN proc[p].this_round_teams |->
                                        seed(proc[p].this_round_teams[i])]))]
    /\ proc' = [proc EXCEPT ![p].pc = "round",
                            ![p].round_number = proc[p].round_number + 1,
                            ![p].this_round_teams = <<>>]
    /\ UNCHANGED <<teams, mode, desired, seed_slot, bracket, runs, champions, results, count>>

\* ------------------------------------------------------------------------
\* Bracket.simulate
\* ------------------------------------------------------------------------

\* The head of Bracket.simulate
Bracket_simulate(p) ==
    /\ proc[p].pc = "simulate"
    /\ proc' = [proc EXCEPT
                   ![p].midwest = NoTeam, ![p].south = NoTeam,
                   ![p].east = NoTeam, ![p].west = NoTeam,
                   ![p].ri = 1,
                   ![p].calls = IF proc[p].calls < MaxCalls THEN proc[p].calls + 1
                                ELSE MaxCalls,
                   ![p].pc = IF bracket[proc[p].b].regions = <<>> THEN "semi1" ELSE "region"]
    /\ UNCHANGED <<teams, mode, desired, seed_slot, region, bracket, runs, champions,
                   results, count>>

\* After region.simulate(): the region winner is filed under the region's name
RegionWinner(p) ==
    /\ proc[p].pc = "round"
    /\ proc[p].round_number > max_region_round
    /\ LET r == Cur(p)
           last_round == region[r].teams_by_round[5]
           next == IF proc[p].ri < Len(bracket[proc[p].b].regions) THEN "region" ELSE "semi1"
           returned == [proc EXCEPT ![p].round_number = 0, ![p].pairs = <<>>,
                                    ![p].ri = proc[p].ri + 1, ![p].pc = next]
       IN  proc' =
             IF last_round = <<>> THEN Raise(p, "IndexError")
             ELSE IF region[r].name = "Midwest"
                  THEN [returned EXCEPT ![p].midwest = last_round[1]]
             ELSE IF region[r].name = "South"
                  THEN [returned EXCEPT ![p].south = last_round[1]]
             ELSE IF region[r].name = "East"
                  THEN [returned EXCEPT ![p].east = last_round[1]]
             ELSE IF region[r].name = "West"
                  THEN [returned EXCEPT ![p].west = last_round[1]]
             ELSE Raise(p, "Exception")
    /\ UNCHANGED <<teams, mode, desired, seed_slot, region, bracket, runs, champions,
                   results, count>>

\* A first championship matchup between the wrong region winners
finalist_1_teams_South(p) == <<proc[p].midwest, proc[p].south>>

\* The teams of the two FINALS matchups
finalist_1_teams(p) == <<proc[p].midwest, proc[p].west>>
finalist_2_teams(p) == <<proc[p].south, proc[p].east>>

\* finalist_1=pick_winner(midwest,west,6)
Semifinal1(p) ==
    /\ proc[p].pc = "semi1"
    /\ LET team1 == finalist_1_teams(p)[1]
           team2 == finalist_1_teams(p)[2]
       IN  IF PickRaises(team1, team2, 6) # ""
           THEN /\ proc' = Raise(p, PickRaises(team1, team2, 6))
                /\ UNCHANGED seed_slot
           ELSE \E num \in Draws(team1, team2, 6) :
                /\ seed_slot' = pick_winner_slots(seed_slot, team1, team2, 6, num)
                /\ proc' = [proc EXCEPT
                               ![p].pc = "semi2",
                               ![p].finalist_1 = pick_winner(team1, team2, 6, num),
                               ![p].last = Pick(team1, team2, 6, num)]
    /\ UNCHANGED <<teams, mode, desired, region, bracket, runs, champions, results, count>>

\* finalist_2=pick_winner(south,east,6); self.finalists=[finalist_1,finalist_2]
Semifinal2(p) ==
    /\ proc[p].pc = "semi2"
    /\ LET team1 == finalist_2_teams(p)[1]
           team2 == finalist_2_teams(p)[2]
       IN  IF PickRaises(team1, team2, 6) # ""
           THEN /\ proc' = Raise(p, PickRaises(team1, team2, 6))
                /\ UNCHANGED <<seed_slot, bracket>>
           ELSE \E num \in Draws(team1, team2, 6) :
                /\ seed_slot' = pick_winner_slots(seed_slot, team1, team2, 6, num)
                /\ bracket' = [bracket EXCEPT ![proc[p].b].finalists =
                                  <<proc[p].finalist_1, pick_winner(team1, team2, 6, num)>>]
                /\ proc' = [proc EXCEPT ![p].pc = "final",
                                        ![p].last = Pick(team1, team2, 6, num)]
    /\ UNCHANGED <<teams, mode, desired, region, runs, champions, results, count>>

\* self.champion=pick_winner(finalist_1,finalist_2,7)
Final(p) ==
    /\ proc[p].pc = "final"
    /\ LET team1 == bracket[proc[p].b].finalists[1]
           team2 == bracket[proc[p].b].finalists[2]
       IN  IF PickRaises(team1, team2, 7) # ""
           THEN /\ proc' = Raise(p, PickRaises(team1, team2, 7))
                /\ UNCHANGED <<seed_slot, bracket>>
           ELSE \E num \in Draws(team1, team2, 7) :
                /\ seed_slot' = pick_winner_slots(seed_slot, team1, team2, 7, num)
                /\ bracket' = [bracket EXCEPT ![proc[p].b].champion =
                                  pick_winner(team1, team2, 7, num)]
                /\ proc' = [proc EXCEPT
                               ![p].pc = "return", ![p].ri = 0,
                               ![p].midwest = NoTeam, ![p].south = NoTeam,
                               ![p].east = NoTeam, ![p].west = NoTeam,
                               ![p].finalist_1 = NoTeam,
                               ![p].last = Pick(team1, team2, 7, num)]
    /\ UNCHANGED <<teams, mode, desired, region, runs, champions, results, count>>

\* ------------------------------------------------------------------------
\* predictor, single-bracket mode
\* ------------------------------------------------------------------------

\* bracket.simulate() has returned: the bracket is printed and written
PredictorSingle ==
    /\ mode = "single"
    /\ proc[Main].pc = "return"
    /\ proc' = [proc EXCEPT ![Main].pc = "done"]
    /\ UNCHANGED <<teams, mode, desired, seed_slot, region, bracket, runs, champions,
                   results, count>>

\* ------------------------------------------------------------------------
\* predictor, champion mode
\* ------------------------------------------------------------------------

\* dict[key] += 1, with the entry created at 0 first
Increment(dict, key) ==
    [k \in DOMAIN dict \cup {key} |->
        (IF k \in DOMAIN dict THEN dict[k] ELSE 0) + (IF k = key THEN 1 ELSE 0)]

\* One turn of the loop after bracket.simulate() has returned, where
\* num_champion_simulation_runs is n
champion_turn(n) ==
    /\ mode = "champion"
    /\ proc[Main].pc = "return"
    /\ champions' = Increment(champions, bracket[0].champion)
    /\ runs' = runs + 1
    /\ proc' = [proc EXCEPT ![Main].pc = IF runs + 1 < n THEN "simulate" ELSE "done"]
    /\ UNCHANGED <<teams, mode, desired, seed_slot, region, bracket, results, count>>

PredictorChampion == champion_turn(NumRuns)

\* The turns of a loop of ChampionRuns simulations
PredictorChampionEnd == champion_turn(ChampionRuns)

\* (champions[u], str(u)) > (champions[t], str(t))
pair_gt(tally, u, t) ==
    \/ tally[u] > tally[t]
    \/ tally[u] = tally[t] /\ str_lt(ord(str(t)), ord(str(u)))

\* output_list after output_list.sort(reverse=True): the pairs
\* (champions[champion], str(champion)), the larger pair first
output_list(tally) ==
    [k \in 1..Cardinality(DOMAIN tally) |->
        LET t == CHOOSE t \in DOMAIN tally :
                    LET above == Cardinality({u \in DOMAIN tally : pair_gt(tally, u, t)})
                        equal == Cardinality({u \in DOMAIN tally :
                                    tally[u] = tally[t] /\ str(u) = str(t)})
                    IN  above < k /\ k <= above + equal
        IN  <<tally[t], str(t)>>]

\* win_percent = float(num_wins)*100/float(n): the fraction <<numerator,
\* denominator>> whose nearest double the program holds
win_percent(num_wins, n) == <<num_wins * 100, n>>

\* The e with 2^e <= num/den < 2^(e+1), for num > 0
RECURSIVE Exponent(_, _, _)
Exponent(num, den, e) ==
    IF num < den THEN Exponent(2 * num, den, e - 1)
    ELSE IF num >= 2 * den THEN Exponent(num, 2 * den, e + 1)
    ELSE e

\* '%.1f' % x for the double nearest to the fraction x, in tenths ('49.7' is
\* 497): the decimal with one digit after the point that is nearest to the
\* double.  When x lies in the middle of two such decimals, x = k/20 with k
\* odd: for k a multiple of 5 the double is x itself and the even tenth is
\* taken; otherwise the double is not x, and it lies above x when the part
\* of x beyond the 53 bits of the double, (k * 2^(50-e) mod 5) / 5 of the
\* last bit, is more than one half.
format_1f(x) ==
    LET q == (x[1] * 10) \div x[2]
        r == (x[1] * 10) % x[2]
        k == 2 * q + 1
        e == Exponent(x[1], x[2], 0)
        beyond == (k * <<1, 2, 4, 8>>[((50 - e) % 4) + 1]) % 5
    IN  IF 2 * r < x[2] THEN q
        ELSE IF 2 * r > x[2] THEN q + 1
        ELSE IF k % 5 = 0 THEN (IF q % 2 = 0 THEN q ELSE q + 1)
        ELSE IF beyond >= 3 THEN q + 1
        ELSE q

\* The lines printed after n simulations: the name and the text of
\* win_percent, in tenths of a percent
Report(tally, n) ==
    LET printed == SelectSeq(output_list(tally), LAMBDA e : e[1] * 100 >= n)
    IN  [k \in DOMAIN printed |->
            [name |-> printed[k][2],
             win_percent |-> format_1f(win_percent(printed[k][1], n))]]

\* ------------------------------------------------------------------------
\* predictor, find mode: the jobs of the pool
\* ------------------------------------------------------------------------

\* Team.copy: a new Team object, of bracket b
Team_copy(t, b, tag) == <<b, t[2], tag>>

\* Region.copy
Region_copy(r, b) ==
    [name |-> region[r].name,
     teams |-> [j \in DOMAIN region[r].teams |-> Team_copy(region[r].teams[j], b, 0)],
     teams_by_round |-> <<>>]

\* The regions of a sequence in the order in which a new dict iterates that
\* got their names as keys in the order of the sequence
reinserted(regions) ==
    LET keys == [k \in DOMAIN regions |-> region[regions[k]].name]
        names == dict_keys(keys, [k \in DOMAIN keys |-> hash(keys[k])])
    IN  [k \in DOMAIN names |-> regions[CHOOSE i \in DOMAIN keys : keys[i] = names[k]]]

\* The argument original_bracket of a job: pool.apply_async pickles the
\* arguments, and the worker unpickles the bracket with its dict of regions
\* built anew in the order of the old one
apply_async_args(orig) ==
    [regions |-> reinserted(bracket[orig].regions),
     finalists |-> bracket[orig].finalists,
     champion |-> bracket[orig].champion]

\* The regions of the bracket original in the order in which their copies
\* stand in the dict of Bracket.copy: the names become keys of the new dict in
\* the order of the old one
copy_order(original) == reinserted(original.regions)

\* The Region object that Bracket.copy puts in place k of the copy
Bracket_copy_region(r, b, k) == RegionRef(b, k)

\* Bracket.copy of the bracket original; b is the new Bracket object
Bracket_copy(original, b) ==
    [regions |-> LET regions == copy_order(original)
                 IN  [k \in DOMAIN regions |-> Bracket_copy_region(regions[k], b, k)],
     finalists |-> IF original.finalists = NoFinalists THEN NoFinalists
                   ELSE [j \in DOMAIN original.finalists |->
                            Team_copy(original.finalists[j], b, j)],
     champion |-> IF original.champion = NoTeam THEN NoTeam
                  ELSE Team_copy(original.champion, b, 3)]

\* simulate_desired_champion, up to the call of simulate_champion: job j
\* copies the bracket it got as its argument
simulate_desired_champion(j) ==
    /\ mode = "find"
    /\ j \in Jobs
    /\ proc[j].pc = "queued"
    /\ LET original_bracket == apply_async_args(0)
           copy == Bracket_copy(original_bracket, j)
           copied == copy_order(original_bracket)
           made == {k \in DOMAIN copy.regions : copy.regions[k] \notin DOMAIN region}
           regions == [r \in {copy.regions[k] : k \in made} |->
                          Region_copy(copied[r[2]], j)]
           members == UNION {Range(regions[r].teams) : r \in DOMAIN regions}
                      \cup Range(copy.finalists)
                      \cup (IF copy.champion = NoTeam THEN {} ELSE {copy.champion})
       IN  /\ bracket' = [b \in DOMAIN bracket \cup {j} |->
                             IF b = j THEN copy ELSE bracket[b]]
           /\ region' = [r \in DOMAIN region \cup DOMAIN regions |->
                            IF r \in DOMAIN regions THEN regions[r] ELSE region[r]]
           /\ seed_slot' = [t \in DOMAIN seed_slot \cup members |->
                               IF t \in DOMAIN seed_slot THEN seed_slot[t] ELSE seed(t)]
    /\ proc' = [proc EXCEPT ![j].pc = "simulate"]
    /\ UNCHANGED <<teams, mode, desired, runs, champions, results, count>>

\* A simulate_champion that returns after its first simulation
simulate_champion_Once(j) ==
    /\ mode = "find"
    /\ j \in Jobs
    /\ proc[j].pc = "return"
    /\ proc' = [proc EXCEPT ![j].pc = "finished"]
    /\ UNCHANGED <<teams, mode, desired, seed_slot, region, bracket, runs, champions,
                   results, count>>

\* Bracket.simulate_champion: the test of the loop after self.simulate()
simulate_champion(j) ==
    /\ mode = "find"
    /\ j \in Jobs
    /\ proc[j].pc = "return"
    /\ proc' = [proc EXCEPT ![j].pc = IF str(bracket[proc[j].b].champion) # desired
                                      THEN "simulate" ELSE "finished"]
    /\ UNCHANGED <<teams, mode, desired, seed_slot, region, bracket, runs, champions,
                   results, count>>

\* The keys that one results bracket adds to, with the number of times each
\* is met; a key of region_counts is <<region, round, team>>
RegionOccurrences(b) ==
    [key \in UNION {UNION {{<<region[r].name, k, str(region[r].teams_by_round[k][i])>> :
                              i \in DOMAIN region[r].teams_by_round[k]} :
                           k \in DOMAIN region[r].teams_by_round} :
                    r \in Range(bracket[b].regions)} |->
        Cardinality({<<r, i>> \in Range(bracket[b].regions) \X (1..64) :
                        /\ region[r].name = key[1]
                        /\ key[2] \in DOMAIN region[r].teams_by_round
                        /\ i \in DOMAIN region[r].teams_by_round[key[2]]
                        /\ str(region[r].teams_by_round[key[2]][i]) = key[3]})]

FinalistOccurrences(b) ==
    [key \in {str(bracket[b].finalists[i]) : i \in DOMAIN bracket[b].finalists} |->
        Cardinality({i \in DOMAIN bracket[b].finalists : str(bracket[b].finalists[i]) = key})]

\* An increment that stores the latest bracket's number instead of adding it
AddCounts_Overwrite(counts, more) ==
    [k \in DOMAIN counts \cup DOMAIN more |->
        IF k \in DOMAIN more THEN more[k] ELSE counts[k]]

\* counts after every key of more has been incremented more[key] times
AddCounts(counts, more) ==
    [k \in DOMAIN counts \cup DOMAIN more |->
        (IF k \in DOMAIN counts THEN counts[k] ELSE 0)
        + (IF k \in DOMAIN more THEN more[k] ELSE 0)]

\* SimulateDesiredChampionResults.cb
cb(counts, b) ==
    [region_counts |-> AddCounts(counts.region_counts, RegionOccurrences(b)),
     finalist_counts |-> AddCounts(counts.finalist_counts, FinalistOccurrences(b))]

\* MultiWorker.custom_cb, run by the pool's result thread of the main
\* process for a job that has returned
custom_cb(j) ==
    /\ mode = "find"
    /\ j \in Jobs
    /\ proc[j].pc = "finished"
    /\ count' = count + 1
    /\ results' = cb(results, proc[j].b)
    /\ proc' = [proc EXCEPT ![j].pc = "collected"]
    /\ UNCHANGED <<teams, mode, desired, seed_slot, region, bracket, runs, champions>>

\* A join that returns as soon as one job has been collected
finishJobs_Any ==
    /\ mode = "find"
    /\ proc[Main].pc = "join"
    /\ \E j \in Jobs \cap DOMAIN proc : proc[j].pc \in {"collected", "raised"}
    /\ proc' = [proc EXCEPT ![Main].pc = "done"]
    /\ UNCHANGED <<teams, mode, desired, seed_slot, region, bracket, runs, champions, results, count>>

\* MultiWorker.finishJobs returns once every job has ended
finishJobs ==
    /\ mode = "find"
    /\ proc[Main].pc = "join"
    /\ \A j \in Jobs \cap DOMAIN proc : proc[j].pc \in {"collected", "raised"}
    /\ proc' = [proc EXCEPT ![Main].pc = "done"]
    /\ UNCHANGED <<teams, mode, desired, seed_slot, region, bracket, runs, champions,
                   results, count>>

\* ------------------------------------------------------------------------
\* The program on files with the four regions, in its three modes
\* ------------------------------------------------------------------------

Init ==
    \/ \E f \in {"FileLean", "FileUpset", "FileOpen", "FilePlayIn", "FileThreeSame",
                  "FileNorth", "FileNoSouth"} :
          Loaded(f, "single", "")
    \/ \E f \in {"FileUpset"} : Loaded(f, "champion", "")
    \/ \E f \in {"FileLean", "FileNorth"} : \E d \in {"Midwest-1"} : Loaded(f, "find", d)

Next ==
    \/ \E p \in DOMAIN proc : Bracket_simulate(p)
    \/ \E p \in DOMAIN proc : Region_simulate(p)
    \/ \E p \in DOMAIN proc : PlayIn(p)
    \/ \E p \in DOMAIN proc : PlayInFail(p)
    \/ \E p \in DOMAIN proc : RecordRound1(p)
    \/ \E p \in DOMAIN proc : BeginRound(p)
    \/ \E p \in DOMAIN proc : Matchup(p)
    \/ \E p \in DOMAIN proc : EndRound(p)
    \/ \E p \in DOMAIN proc : RegionWinner(p)
    \/ \E p \in DOMAIN proc : Semifinal1(p)
    \/ \E p \in DOMAIN proc : Semifinal2(p)
    \/ \E p \in DOMAIN proc : Final(p)
    \/ \E j \in Jobs : simulate_desired_champion(j)
    \/ \E j \in Jobs : simulate_champion(j)
    \/ \E j \in Jobs : custom_cb(j)
    \/ PredictorSingle
    \/ PredictorChampion
    \/ finishJobs

Spec == Init /\ [][Next]_vars

\* ------------------------------------------------------------------------
\* Files with a single region: one Region.simulate, then Bracket.simulate
\* fails at the first championship matchup
\* ------------------------------------------------------------------------

InitRegion == \E f \in RegionFiles : Loaded(f, "single", "")

NextRegion ==
    \/ Bracket_simulate(Main)
    \/ Region_simulate(Main)
    \/ PlayIn(Main)
    \/ PlayInFail(Main)
    \/ RecordRound1(Main)
    \/ BeginRound(Main)
    \/ Matchup(Main)
    \/ EndRound(Main)
    \/ RegionWinner(Main)
    \/ Semifinal1(Main)

SpecRegion == InitRegion /\ [][NextRegion]_vars

\* ------------------------------------------------------------------------
\* Properties of Region.simulate and pick_winner
\* ------------------------------------------------------------------------

Min(a, b) == IF a <= b THEN a ELSE b

Pow2(n) == IF n = 0 THEN 1 ELSE IF n = 1 THEN 2 ELSE IF n = 2 THEN 4
           ELSE IF n = 3 THEN 8 ELSE 16

Seeds(r) == {seed(t) : t \in Range(region[r].teams)}

\* The entrants of the region cover 16 distinct seeds, each held by one
\* entrant or by two
Sixteen(r) ==
    /\ Cardinality(Seeds(r)) = 16
    /\ \A s \in Seeds(r) :
          Cardinality({t \in Range(region[r].teams) : seed(t) = s}) \in {1, 2}

\* Region.simulate of region r has run to its end
Simulated(r) == Len(region[r].teams_by_round) = max_region_round

\* C1: in a division of 16 distinct seeds every recorded round k holds
\* 2^(5-k) survivors: each standard round has half the survivors of the
\* round before it, and round 5 has exactly one; Region.simulate does not
\* end in an exception.
C1_OneWinnerHalving ==
    \A r \in DOMAIN region :
        Sixteen(r) =>
            /\ \A k \in DOMAIN region[r].teams_by_round :
                  /\ Len(region[r].teams_by_round[k]) = Pow2(max_region_round - k)
                  /\ k >= 2 => 2 * Len(region[r].teams_by_round[k])
                                  = Len(region[r].teams_by_round[k - 1])
            /\ Simulated(r) => Len(region[r].teams_by_round[max_region_round]) = 1
            /\ \A p \in DOMAIN proc :
                  (proc[p].ri \in DOMAIN bracket[proc[p].b].regions /\ Cur(p) = r) =>
                      proc[p].pc # "raised"

\* C1 witness: a division of 16 seeds with two play-ins has been simulated to
\* its end after at least one upset
C1_Witness ==
    \E r \in DOMAIN region :
        /\ Sixteen(r) /\ Simulated(r) /\ Len(region[r].teams) = 18
        /\ \E t \in Range(region[r].teams) : seed_slot[t] # seed(t)

\* C2: at every point of a standard round the matchups still to play are the
\* i-th smallest against the i-th largest effective seed of the previous
\* round's survivors, and all survivors are paired.
C2_Pairing ==
    \A p \in DOMAIN proc :
        proc[p].pc = "match" =>
            LET prev == region[Cur(p)].teams_by_round[proc[p].round_number - 1]
                played == Len(proc[p].this_round_teams)
            IN  /\ played = 0 =>
                      \A i \in 1..(Len(prev) - 1) : seed_slot[prev[i]] < seed_slot[prev[i + 1]]
                /\ 2 * (played + Len(proc[p].pairs)) = Len(prev)
                /\ \A j \in DOMAIN proc[p].pairs :
                      proc[p].pairs[j] = <<prev[played + j], prev[Len(prev) + 1 - played - j]>>

\* The part of C2 that does not depend on the number of survivors: the
\* pairing is smallest against largest effective seed
C2_PairingOrder ==
    \A p \in DOMAIN proc :
        (proc[p].pc = "match" /\ proc[p].this_round_teams = <<>>) =>
            LET prev == region[Cur(p)].teams_by_round[proc[p].round_number - 1]
            IN  /\ \A i \in 1..(Len(prev) - 1) : seed_slot[prev[i]] < seed_slot[prev[i + 1]]
                /\ Len(proc[p].pairs) = Len(prev) \div 2
                /\ \A j \in DOMAIN proc[p].pairs :
                      proc[p].pairs[j] = <<prev[j], prev[Len(prev) + 1 - j]>>

\* C3: every matchup is decided from the conditional probabilities of the
\* two entrants: the two values looked up are conditional_round_odds of the
\* round, and team1 wins exactly when the draw is at or below its value.
C3_ConditionalOdds ==
    \A p \in DOMAIN proc :
        proc[p].last # NoPick =>
            LET m == proc[p].last
            IN  /\ SameFraction(<<m.team1_prob, Scale>>,
                                conditional_round_odds(m.team1)[m.round_number])
                /\ SameFraction(<<m.team2_prob, Scale>>,
                                conditional_round_odds(m.team2)[m.round_number])
                /\ m.num \in 0..(m.team1_prob + m.team2_prob)
                /\ (m.winner = m.team1) <=> (m.num <= m.team1_prob)
                /\ (m.winner = m.team2) <=> (m.num > m.team1_prob)

\* The part of C3 that holds of the code: the draw is over the sum of the
\* two round_odds values and team1 wins exactly at or below its own
C3_RoundOdds ==
    \A p \in DOMAIN proc :
        proc[p].last # NoPick =>
            LET m == proc[p].last
            IN  /\ m.team1_prob = round_odds(m.team1)[m.round_number]
                /\ m.team2_prob = round_odds(m.team2)[m.round_number]
                /\ m.num \in 0..(m.team1_prob + m.team2_prob)
                /\ (m.winner = m.team1) <=> (m.num <= m.team1_prob)

\* The loser of a recorded matchup
Loser(m) == IF m.winner = m.team1 THEN m.team2 ELSE m.team1
WinnerSlotBefore(m) == IF m.winner = m.team1 THEN m.slot1 ELSE m.slot2

\* A step of Region.simulate that resets the seed slots
ResetStep ==
    \E p \in DOMAIN proc : proc[p].pc = "region" /\ proc'[p].pc = "playin"

\* C4: an entrant's effective seed is never larger than its initial seed and,
\* between two resets, never increases; when a seed-5 entrant whose effective
\* seed is 5 beats a seed-2 entrant, its effective seed is 2 afterwards.
C4_SlotNeverIncreases ==
    /\ [](\A t \in DOMAIN seed_slot : seed_slot[t] <= seed(t))
    /\ [](\A p \in DOMAIN proc :
            LET m == proc[p].last
            IN  (m # NoPick /\ seed(m.winner) = 5 /\ WinnerSlotBefore(m) = 5
                   /\ seed(Loser(m)) = 2) => seed_slot[m.winner] = 2)
    /\ [][ResetStep \/ \A t \in DOMAIN seed_slot : seed_slot'[t] <= seed_slot[t]]_vars

\* C4 witness: a seed-5 entrant with effective seed 5 has just beaten a
\* seed-2 entrant
C4_Witness ==
    \E p \in DOMAIN proc :
        LET m == proc[p].last
        IN  /\ m # NoPick /\ seed(m.winner) = 5 /\ WinnerSlotBefore(m) = 5
            /\ seed(Loser(m)) = 2

\* C5: after a matchup the winner's effective seed is the minimum of the two
\* effective seeds before the matchup.
C5_WinnerTakesMinSlot ==
    \A p \in DOMAIN proc :
        proc[p].last # NoPick =>
            seed_slot[proc[p].last.winner] = Min(proc[p].last.slot1, proc[p].last.slot2)

\* What the code does instead: the minimum of the winner's effective seed and
\* the loser's initial seed
C5_WinnerTakesLoserSeed ==
    \A p \in DOMAIN proc :
        proc[p].last # NoPick =>
            seed_slot[proc[p].last.winner]
                = Min(WinnerSlotBefore(proc[p].last), seed(Loser(proc[p].last)))

\* The seed groups of region r as Region.simulate first builds them
Groups(r) == GroupBySeed(region[r].teams)

\* C6: during the play-in stage nothing is recorded; the seeds already
\* handled hold one entrant of their group and every handled group had one or
\* two entrants; every play-in matchup is a round-1 matchup between the two
\* entrants of one seed; an exception of the stage leaves the mapping empty;
\* a recorded round-1 list holds exactly one entrant of every seed group, and
\* every group had one or two entrants.
C6_PlayInStage ==
    /\ \A p \in DOMAIN proc :
          proc[p].pc = "playin" =>
              LET g == proc[p].round2_teams
                  orig == Groups(Cur(p))
                  m == proc[p].last
              IN  /\ region[Cur(p)].teams_by_round = <<>>
                  /\ Len(g) = Len(orig)
                  /\ \A j \in DOMAIN g :
                        IF j < proc[p].gi
                        THEN /\ Len(orig[j]) \in {1, 2}
                             /\ Len(g[j]) = 1
                             /\ g[j][1] \in Range(orig[j])
                             /\ Len(orig[j]) = 1 => g[j] = orig[j]
                        ELSE g[j] = orig[j]
                  /\ m # NoPick =>
                        /\ m.round_number = 1
                        /\ \E j \in 1..(proc[p].gi - 1) :
                              orig[j] = <<m.team1, m.team2>> /\ g[j] = <<m.winner>>
    /\ \A p \in DOMAIN proc :
          (proc[p].pc = "raised" /\ proc[p].round2_teams # <<>>) =>
              /\ region[Cur(p)].teams_by_round = <<>>
              /\ proc[p].err = "Exception" =>
                    Len(proc[p].round2_teams[proc[p].gi]) \notin {1, 2}
    /\ \A r \in DOMAIN region :
          region[r].teams_by_round # <<>> =>
              LET orig == Groups(r)
                  first == Range(region[r].teams_by_round[1])
              IN  /\ \A j \in DOMAIN orig : Len(orig[j]) \in {1, 2}
                  /\ Len(region[r].teams_by_round[1]) = Len(orig)
                  /\ \A j \in DOMAIN orig : Cardinality(Range(orig[j]) \cap first) = 1

\* C6 witness: round 1 of a region with a seed held by two entrants has just
\* been recorded, after a play-in matchup
C6_Witness ==
    \E p \in DOMAIN proc :
        /\ proc[p].pc = "round" /\ proc[p].round_number = 2
        /\ proc[p].last # NoPick /\ proc[p].last.round_number = 1
        /\ Len(region[Cur(p)].teams_by_round) = 1
        /\ Len(region[Cur(p)].teams) > Len(region[Cur(p)].teams_by_round[1])

\* ------------------------------------------------------------------------
\* Properties of Bracket.simulate and of the three modes
\* ------------------------------------------------------------------------

\* The region of bracket b with the given name, and its winner
RegionNamed(b, n) == CHOOSE r \in Range(bracket[b].regions) : region[r].name = n
Winner(b, n) == region[RegionNamed(b, n)].teams_by_round[max_region_round][1]

\* Bracket.simulate of process p has run to its end
Completed(p) ==
    \/ proc[p].pc \in {"return", "finished", "collected"}
    \/ proc[p].pc = "done" /\ mode # "find"

\* C7: when the regions are simulated every region has one round-5 survivor;
\* the first finalist is the winner of the round-6 matchup Midwest v West,
\* the second of the round-6 matchup South v East; after Bracket.simulate
\* there are two finalists and the champion is the winner of the round-7
\* matchup between them.
C7_TwoFinalistsOneChampion ==
    \A p \in DOMAIN proc :
        LET b == proc[p].b
            m == proc[p].last
        IN  /\ (proc[p].pc \in {"semi1", "semi2", "final"} \/ Completed(p)) =>
                  \A r \in Range(bracket[b].regions) :
                      /\ Simulated(r)
                      /\ Len(region[r].teams_by_round[max_region_round]) = 1
            /\ proc[p].pc = "semi2" =>
                  /\ m.round_number = 6
                  /\ m.team1 = Winner(b, "Midwest") /\ m.team2 = Winner(b, "West")
                  /\ proc[p].finalist_1 = m.winner
            /\ proc[p].pc = "final" =>
                  /\ m.round_number = 6
                  /\ m.team1 = Winner(b, "South") /\ m.team2 = Winner(b, "East")
                  /\ bracket[b].finalists = <<proc[p].finalist_1, m.winner>>
                  /\ proc[p].finalist_1 \in {Winner(b, "Midwest"), Winner(b, "West")}
            /\ Completed(p) =>
                  /\ Len(bracket[b].finalists) = 2
                  /\ bracket[b].finalists[1] \in {Winner(b, "Midwest"), Winner(b, "West")}
                  /\ bracket[b].finalists[2] \in {Winner(b, "South"), Winner(b, "East")}
                  /\ m.round_number = 7
                  /\ m.team1 = bracket[b].finalists[1]
                  /\ m.team2 = bracket[b].finalists[2]
                  /\ bracket[b].champion = m.winner
                  /\ bracket[b].champion \in Range(bracket[b].finalists)

\* C7 witness: a Bracket.simulate has ended in which West won the first
\* FINALS matchup and the second finalist won the CHAMPIONS matchup
C7_Witness ==
    \E p \in DOMAIN proc :
        /\ Completed(p)
        /\ bracket[proc[p].b].finalists[1] = Winner(proc[p].b, "West")
        /\ bracket[proc[p].b].champion = bracket[proc[p].b].finalists[2]

\* The Team objects that bracket b refers to
BracketTeams(b) ==
    UNION {Range(region[r].teams)
             \cup UNION {Range(region[r].teams_by_round[k]) :
                            k \in DOMAIN region[r].teams_by_round} :
           r \in Range(bracket[b].regions)}
    \cup Range(bracket[b].finalists)
    \cup (IF bracket[b].champion = NoTeam THEN {} ELSE {bracket[b].champion})

\* Bracket b is as Bracket.fromfile made it
Untouched(b) ==
    /\ bracket[b].finalists = NoFinalists
    /\ bracket[b].champion = NoTeam
    /\ \A r \in Range(bracket[b].regions) :
          /\ region[r].teams_by_round = <<>>
          /\ \A t \in Range(region[r].teams) : seed_slot[t] = seed(t)

\* The loaded bracket is never changed, the brackets of two runs share no
\* Region and no Team object, and a run plays its matchups on the teams of a
\* bracket other than the loaded one
OwnCopy ==
    /\ Untouched(0)
    /\ \A b1, b2 \in DOMAIN bracket :
          b1 # b2 =>
              /\ Range(bracket[b1].regions) \cap Range(bracket[b2].regions) = {}
              /\ BracketTeams(b1) \cap BracketTeams(b2) = {}
    /\ \A p \in DOMAIN proc :
          proc[p].last # NoPick =>
              /\ proc[p].b # 0
              /\ {proc[p].last.team1, proc[p].last.team2} \subseteq BracketTeams(proc[p].b)

\* C8: in all three modes every run has its own copy of the loaded bracket.
C8_OwnCopy == OwnCopy

\* What the code does in C8's case: in the conditioned aggregate every job
\* has its own copy of the loaded bracket; in the two other modes there is
\* no bracket but the loaded one, and every run plays its matchups on it.
C8_JobsOwnCopy ==
    /\ mode = "find" => OwnCopy
    /\ mode # "find" =>
          /\ DOMAIN bracket = {0}
          /\ \A p \in DOMAIN proc :
                /\ proc[p].b = 0
                /\ proc[p].last # NoPick =>
                      {proc[p].last.team1, proc[p].last.team2} \subseteq BracketTeams(0) \cup {NoTeam}

\* C8 witness: one job has returned its bracket while another is in the
\* middle of a round, after a matchup
C8_Witness ==
    \E j1, j2 \in Jobs \cap DOMAIN proc :
        /\ proc[j1].pc = "finished"
        /\ proc[j2].pc = "match" /\ proc[j2].last # NoPick

\* C9: when Region.simulate has reset the seed slots and has played no
\* matchup yet, every team of the region has seed_slot = seed.
C9_ResetAtStart ==
    \A p \in DOMAIN proc :
        (proc[p].pc = "playin" /\ proc[p].last = NoPick) =>
            \A t \in Range(region[Cur(p)].teams) : seed_slot[t] = seed(t)

\* C9 witness: a region is simulated again in which a team has kept a changed
\* seed_slot from the run before, a run that a team of the region with a
\* seed above 1 ended as champion
C9_Witness ==
    \E p \in DOMAIN proc :
        /\ proc[p].pc = "playin" /\ proc[p].last = NoPick
        /\ proc[p].stale /\ proc[p].calls = 2
        /\ bracket[proc[p].b].champion \in Range(region[Cur(p)].teams)
        /\ seed(bracket[proc[p].b].champion) > 1

\* The jobs whose bracket has been passed to the callback
Collected == {j \in Jobs \cap DOMAIN proc : proc[j].pc = "collected"}

\* C10: a job returns, and the callback is given, a bracket whose champion
\* has the desired name and is the winner of the last CHAMPIONS matchup the
\* job played, between the finalists of the bracket, who are winners of its
\* regions; the tallies are the numbers of occurrences in the brackets
\* passed to the callback.
C10_OnlyDesiredChampion ==
    /\ \A j \in Jobs \cap DOMAIN proc :
          proc[j].pc \in {"finished", "collected"} =>
              LET b == proc[j].b
                  m == proc[j].last
              IN  /\ str(bracket[b].champion) = desired
                  /\ m.round_number = 7 /\ m.winner = bracket[b].champion
                  /\ bracket[b].finalists = <<m.team1, m.team2>>
                  /\ m.team1 \in {Winner(b, "Midwest"), Winner(b, "West")}
                  /\ m.team2 \in {Winner(b, "South"), Winner(b, "East")}
    /\ count = Cardinality(Collected)
    /\ DOMAIN results.finalist_counts =
          UNION {{str(t) : t \in Range(bracket[proc[j].b].finalists)} : j \in Collected}
    /\ \A key \in DOMAIN results.finalist_counts :
          results.finalist_counts[key] =
              Cardinality({x \in Collected \X (1..2) :
                              str(bracket[proc[x[1]].b].finalists[x[2]]) = key})
    /\ \A key \in DOMAIN results.region_counts :
          results.region_counts[key] =
              Cardinality({x \in Collected \X (1..4) \X (1..16) :
                  LET r == bracket[proc[x[1]].b].regions[x[2]]
                  IN  /\ region[r].name = key[1]
                      /\ x[3] \in DOMAIN region[r].teams_by_round[key[2]]
                      /\ str(region[r].teams_by_round[key[2]][x[3]]) = key[3]})
    /\ \A j \in Collected : \A r \in Range(bracket[proc[j].b].regions) :
          \A k \in DOMAIN region[r].teams_by_round :
              \A t \in Range(region[r].teams_by_round[k]) :
                  <<region[r].name, k, str(t)>> \in DOMAIN results.region_counts

\* C10 witness: the callback has been given the bracket of a job whose first
\* simulation was rejected
C10_Witness ==
    \E j \in Collected : proc[j].calls = 2 /\ count = 1

\* ------------------------------------------------------------------------
\* Find mode with one job: one call of simulate_desired_champion, with
\* fairness.  The job keeps taking steps, and a matchup outcome in which the
\* desired champion wins, if possible again and again, is eventually taken
\* (one condition per round).
\* ------------------------------------------------------------------------

InitFind ==
    \E f \in {"FileLean", "FileOpen"} : \E d \in {"Midwest-1", "South-1", "Nobody"} :
        LoadedJobs(f, "find", d, {1})

NextFind ==
    \/ \E p \in DOMAIN proc : Bracket_simulate(p)
    \/ \E p \in DOMAIN proc : Region_simulate(p)
    \/ \E p \in DOMAIN proc : RecordRound1(p)
    \/ \E p \in DOMAIN proc : BeginRound(p)
    \/ \E p \in DOMAIN proc : Matchup(p)
    \/ \E p \in DOMAIN proc : EndRound(p)
    \/ \E p \in DOMAIN proc : RegionWinner(p)
    \/ \E p \in DOMAIN proc : Semifinal1(p)
    \/ \E p \in DOMAIN proc : Semifinal2(p)
    \/ \E p \in DOMAIN proc : Final(p)
    \/ \E j \in Jobs \cap DOMAIN proc : simulate_desired_champion(j)
    \/ \E j \in Jobs \cap DOMAIN proc : simulate_champion(j)
    \/ \E j \in Jobs \cap DOMAIN proc : custom_cb(j)
    \/ finishJobs

\* A matchup of round k that the desired champion wins
DesiredWins(k) ==
    \E p \in DOMAIN proc :
        /\ Matchup(p) \/ Semifinal1(p) \/ Semifinal2(p) \/ Final(p)
        /\ proc'[p].last.round_number = k
        /\ str(proc'[p].last.winner) = desired

\* predictor has joined the pool: nothing is left to run
Halted == proc[Main].pc = "done"

\* Weak fairness of the steps of the program.  A step is enabled exactly when
\* the program has not halted, so WF_vars(NextFind) is written with Halted in
\* the place of ~ENABLED <<NextFind>>_vars.
Progress == []<>Halted \/ []<><<NextFind>>_vars

SpecFind ==
    /\ InitFind /\ [][NextFind]_vars
    /\ Progress
    /\ \A k \in 2..7 : SF_vars(DesiredWins(k))

\* The desired champion is an entrant with a probability above 0 in every
\* round from the ROUND OF 32 on
Winnable ==
    \E i \in DOMAIN teams :
        /\ teams[i].name = desired
        /\ Len(teams[i].round_odds) = 7
        /\ \A k \in 2..7 : teams[i].round_odds[k] > 0

\* simulate_champion of job j has returned
Returned(j) == proc[j].pc \in {"finished", "collected"}

\* C11: when the desired champion cannot win, every job ends with an
\* exception instead of simulating for ever.
C11_ExhaustionError ==
    ~Winnable => <>(\A j \in Jobs \cap DOMAIN proc : proc[j].pc = "raised")

\* What the code does in C11's case: with a desired name that no entrant has,
\* simulate_champion never returns and never raises.
C11_NeverReturns ==
    (\A i \in DOMAIN teams : teams[i].name # desired)
        => \A j \in Jobs \cap DOMAIN proc : ~Returned(j) /\ proc[j].pc # "raised"

\* Find mode with the jobs of the pool running side by side
InitTally == Loaded("FileSemi", "find", "Midwest-1")

SpecTally == InitTally /\ [][NextFind]_vars

\* The sum over the jobs S of the numbers that occ[j] gives for key
RECURSIVE SumOver(_, _, _)
SumOver(occ, key, S) ==
    IF S = {} THEN 0
    ELSE LET j == CHOOSE x \in S : TRUE
         IN  (IF key \in DOMAIN occ[j] THEN occ[j][key] ELSE 0) + SumOver(occ, key, S \ {j})

\* The per-key counts of the multiset of the occurrences occ[j], j a job
Total(occ) ==
    [key \in UNION {DOMAIN occ[j] : j \in DOMAIN occ} |-> SumOver(occ, key, DOMAIN occ)]

\* Jobs that have returned and whose callback has not run yet
Pending == {j \in Jobs \cap DOMAIN proc : proc[j].pc = "finished"}

\* C12: in whatever order the jobs finish, the callback has run once for
\* each job delivered, the tallies are the per-key counts of the multiset of
\* the delivered brackets, and the callbacks of two waiting jobs give the
\* same tallies in either order.
C12_TallyOfDelivered ==
    mode = "find" =>
        /\ count = Cardinality(Collected)
        /\ results.region_counts = Total([j \in Collected |-> RegionOccurrences(proc[j].b)])
        /\ results.finalist_counts = Total([j \in Collected |-> FinalistOccurrences(proc[j].b)])
        /\ \A j \in Pending : \A k \in {x \in Pending : x > j} :
              cb(cb(results, proc[j].b), proc[k].b) = cb(cb(results, proc[k].b), proc[j].b)

\* C12 witness: the callback of job 2 has run before the one of job 1, which
\* has returned a bracket with other finalists
C12_Witness ==
    /\ mode = "find"
    /\ Collected = {2}
    /\ proc[1].pc = "finished"
    /\ FinalistOccurrences(proc[1].b) # FinalistOccurrences(proc[2].b)
    /\ results.finalist_counts = FinalistOccurrences(proc[2].b)

\* The sum of the numbers that counts gives for the keys K
RECURSIVE SumKeys(_, _)
SumKeys(counts, K) ==
    IF K = {} THEN 0
    ELSE LET k == CHOOSE x \in K : TRUE
         IN  counts[k] + SumKeys(counts, K \ {k})

\* C13: once finishJobs has returned, the runs tallied are the NumJobs
\* accepted runs: the finalist counts add up to 2 * NumJobs, the desired
\* champion is counted NumJobs times among the finalists, and for every
\* region and round the counts add up to NumJobs times the number of teams
\* of that round, 16 / 2^(round - 1).
C13_AcceptedRuns ==
    (mode = "find" /\ proc[Main].pc = "done") =>
        /\ count = NumJobs
        /\ SumKeys(results.finalist_counts, DOMAIN results.finalist_counts) = 2 * NumJobs
        /\ desired \in DOMAIN results.finalist_counts
        /\ results.finalist_counts[desired] = NumJobs
        /\ \A n \in {"Midwest", "South", "East", "West"} : \A k \in 1..max_region_round :
              SumKeys(results.region_counts,
                      {key \in DOMAIN results.region_counts : key[1] = n /\ key[2] = k})
                  = NumJobs * Pow2(max_region_round - k)

\* C13 witness: all jobs have been collected, one of them after a rejected
\* simulation, and the accepted runs do not all have the same finalists
C13_Witness ==
    /\ mode = "find" /\ proc[Main].pc = "done"
    /\ count = NumJobs
    /\ \E j \in Jobs : proc[j].calls >= 2
    /\ Cardinality(DOMAIN results.finalist_counts) > 2

\* ------------------------------------------------------------------------
\* Champion mode in the last turns of a loop of ChampionRuns simulations
\* ------------------------------------------------------------------------

\* teams_by_round of a region with the teams ts after a simulation in which
\* the smaller seed won every game
ChalkRounds(ts) ==
    [k \in 1..max_region_round |-> SubSeq(ts, 1, Pow2(max_region_round - k))]

\* The tallies that start the last turns: at least one title for the first
\* team of the file, none to five for the winner of the fourth region, none
\* or one for the one of the second, none or many for the one of the third
Tallies(i) ==
    {[t \in {TeamRef(0, 1)} \cup {TeamRef(0, 17) : x \in {1} \cap {b}}
            \cup {TeamRef(0, 33) : x \in {1} \cap {Min(c, 1)}}
            \cup {TeamRef(0, 49) : x \in {1} \cap {Min(a, 1)}} |->
         IF t = TeamRef(0, 17) THEN b
         ELSE IF t = TeamRef(0, 33) THEN c
         ELSE IF t = TeamRef(0, 49) THEN a
         ELSE i - a - b - c] :
     a \in {0, 2, 3, 5}, b \in 0..1, c \in {0, (i \div 2) - 2}}

\* The state at the head of the loop of champion mode after i turns with the
\* tally given, the last of them a simulation in which the smaller seed won
\* every game of the regions and the first team every game after them
Resumed(f, i, tally) ==
    /\ Loads(Files[f])
    /\ teams = [j \in DOMAIN Files[f] |-> init_from_line(Files[f][j])]
    /\ mode = "champion"
    /\ desired = ""
    /\ seed_slot = [t \in {TeamRef(0, j) : j \in DOMAIN Files[f]} |-> Files[f][t[2]].seed]
    /\ region = [r \in DOMAIN fromfile_regions(Files[f]) |->
                    [fromfile_regions(Files[f])[r] EXCEPT
                        !.teams_by_round = ChalkRounds(fromfile_regions(Files[f])[r].teams)]]
    /\ bracket = (0 :> [fromfile_bracket(Files[f]) EXCEPT
                            !.finalists = <<TeamRef(0, 1), TeamRef(0, 17)>>,
                            !.champion = TeamRef(0, 1)])
    /\ proc = [p \in {Main} |->
                  [Idle("simulate", 0) EXCEPT
                      !.last = Pick(TeamRef(0, 1), TeamRef(0, 17), 7,
                                    Team_getitem(TeamRef(0, 1), 7)),
                      !.calls = Min(i, MaxCalls)]]
    /\ runs = i
    /\ champions = tally
    /\ results = [region_counts |-> <<>>, finalist_counts |-> <<>>]
    /\ count = 0

InitChampion ==
    \E tally \in Tallies(ChampionRuns - 2) : Resumed("FileOpen", ChampionRuns - 2, tally)

NextChampion ==
    \/ \E p \in DOMAIN proc : Bracket_simulate(p)
    \/ \E p \in DOMAIN proc : Region_simulate(p)
    \/ \E p \in DOMAIN proc : RecordRound1(p)
    \/ \E p \in DOMAIN proc : BeginRound(p)
    \/ \E p \in DOMAIN proc : Matchup(p)
    \/ \E p \in DOMAIN proc : EndRound(p)
    \/ \E p \in DOMAIN proc : RegionWinner(p)
    \/ \E p \in DOMAIN proc : Semifinal1(p)
    \/ \E p \in DOMAIN proc : Semifinal2(p)
    \/ \E p \in DOMAIN proc : Final(p)
    \/ PredictorChampionEnd

SpecChampion == InitChampion /\ [][NextChampion]_vars

\* The sum of the win_percents that the lines show, in tenths of a percent
Reported(lines) == SumKeys([k \in DOMAIN lines |-> lines[k].win_percent], DOMAIN lines)

\* In champion mode the tallies add up to the number of simulations run;
\* after the ChampionRuns simulations the report has one line for each
\* champion whose count times 100 is at least ChampionRuns and no other
\* line, the lines are in descending order of count, and every win_percent
\* shown is at least 1.0 and at most 100.0
ReportLines ==
    mode = "champion" =>
        /\ SumKeys(champions, DOMAIN champions) = runs
        /\ proc[Main].pc = "done" =>
              LET lines == Report(champions, ChampionRuns)
                  shown == {t \in DOMAIN champions : champions[t] * 100 >= ChampionRuns}
                  num_wins == [k \in DOMAIN lines |->
                                  champions[CHOOSE t \in shown : str(t) = lines[k].name]]
              IN  /\ runs = ChampionRuns
                  /\ {lines[k].name : k \in DOMAIN lines} = {str(t) : t \in shown}
                  /\ Len(lines) = Cardinality(shown)
                  /\ \A k \in DOMAIN lines : \A l \in DOMAIN lines :
                        k < l => /\ num_wins[k] >= num_wins[l]
                                 /\ lines[k].win_percent >= lines[l].win_percent
                  /\ \A k \in DOMAIN lines :
                        /\ lines[k].win_percent >= 10
                        /\ lines[k].win_percent <= 1000

\* C14: the report of champion mode is as ReportLines says, and the
\* win_percents it shows add up to at most 100.
C14_Report ==
    /\ ReportLines
    /\ (mode = "champion" /\ proc[Main].pc = "done") =>
          Reported(Report(champions, ChampionRuns)) <= 1000

\* What the code does in C14's case: the report is as ReportLines says, and
\* every win_percent shown is the tenth of a percent nearest to count * 100 /
\* ChampionRuns, so that the win_percents of L lines add up to at most 100
\* and L/2 tenths.
C14_ReportRounded ==
    /\ ReportLines
    /\ (mode = "champion" /\ proc[Main].pc = "done") =>
          LET lines == Report(champions, ChampionRuns)
          IN  /\ \A k \in DOMAIN lines : \E t \in DOMAIN champions :
                    /\ str(t) = lines[k].name
                    /\ 2 * (lines[k].win_percent * ChampionRuns - champions[t] * 1000)
                          <= ChampionRuns
                    /\ 2 * (champions[t] * 1000 - lines[k].win_percent * ChampionRuns)
                          <= ChampionRuns
              /\ 2 * Reported(lines) <= 2000 + Len(lines)

\* C14 witness: the loop has ended with a champion below 1 percent, who is
\* not in the report, with a champion at 1 percent exactly, who is, and with
\* two lines of equal count
C14_Witness ==
    /\ mode = "champion" /\ proc[Main].pc = "done"
    /\ \E t \in DOMAIN champions : champions[t] * 100 < ChampionRuns
    /\ \E t \in DOMAIN champions : champions[t] * 100 = ChampionRuns
    /\ LET lines == Report(champions, ChampionRuns)
       IN  /\ Len(lines) = 3
           /\ Len(lines) < Cardinality(DOMAIN champions)
           /\ lines[1].win_percent = lines[2].win_percent
           /\ lines[3].win_percent = 10

\* The region names of bracket b, and the names that Bracket.simulate knows
NamesOf(b) == {region[r].name : r \in Range(bracket[b].regions)}
FourNames == {"Midwest", "South", "East", "West"}

\* C15: when the region names of the bracket are not exactly the four names,
\* Bracket.simulate raises its Exception before a matchup of the rounds 6
\* and 7 is played, and finalists and champion stay as they were.
C15_FailsBeforeChampionship ==
    \A p \in DOMAIN proc :
        (proc[p].b \in DOMAIN bracket /\ NamesOf(proc[p].b) # FourNames) =>
            /\ proc[p].last.round_number < 6
            /\ proc[p].pc \notin {"semi2", "final", "return"}
            /\ proc[p].pc = "raised" => proc[p].err = "Exception"
            /\ bracket[proc[p].b].finalists = NoFinalists
            /\ bracket[proc[p].b].champion = NoTeam

\* What the code does in C15's case, for a process that has called
\* Bracket.simulate: finalists and champion stay as they were and
\* Bracket.simulate does not return; with a name outside the four the
\* Exception of the loop over the regions comes before the matchups of
\* round 6, with a name missing the error is the TypeError of pick_winner.
C15_NoResult ==
    \A p \in DOMAIN proc :
        (proc[p].b \in DOMAIN bracket /\ proc[p].calls > 0
         /\ NamesOf(proc[p].b) # FourNames) =>
            /\ bracket[proc[p].b].finalists = NoFinalists
            /\ bracket[proc[p].b].champion = NoTeam
            /\ proc[p].pc \notin {"final", "return", "done"}
            /\ ~(NamesOf(proc[p].b) \subseteq FourNames) =>
                  /\ proc[p].last.round_number < 6
                  /\ proc[p].pc = "raised" => proc[p].err = "Exception"
            /\ (NamesOf(proc[p].b) \subseteq FourNames /\ proc[p].pc = "raised") =>
                  proc[p].err = "TypeError"

Odd(n) == n % 2 = 1

\* C16: when the list of the round before a standard round has an odd
\* number of teams, Region.simulate pairs nothing and records no list for the
\* round.
C16_OddCountFails ==
    /\ \A r \in DOMAIN region : \A k \in 2..max_region_round :
          (k - 1 \in DOMAIN region[r].teams_by_round
           /\ Odd(Len(region[r].teams_by_round[k - 1])))
              => k \notin DOMAIN region[r].teams_by_round
    /\ \A p \in DOMAIN proc :
          proc[p].pc = "match" =>
              ~Odd(Len(region[Cur(p)].teams_by_round[proc[p].round_number - 1]))

\* What the code does in C16's case: every recorded standard round has half
\* the teams of the round before it, rounded down; of an odd number of teams
\* the first of the lower half is in no matchup, and the round goes on
\* without an exception.
C16_OddCountTruncates ==
    /\ \A r \in DOMAIN region : \A k \in 2..max_region_round :
          k \in DOMAIN region[r].teams_by_round =>
              Len(region[r].teams_by_round[k]) = Len(region[r].teams_by_round[k - 1]) \div 2
    /\ \A p \in DOMAIN proc :
          (proc[p].pc = "match" /\ proc[p].this_round_teams = <<>>) =>
              LET prev == region[Cur(p)].teams_by_round[proc[p].round_number - 1]
                  half_num_teams == Len(prev) \div 2
              IN  Odd(Len(prev)) =>
                      /\ Len(proc[p].pairs) = half_num_teams
                      /\ \A j \in DOMAIN proc[p].pairs :
                            prev[half_num_teams + 1] \notin Range(proc[p].pairs[j])

\* Region r has two entrants, and process p is simulating it
TwoEntrants(r) == Len(region[r].teams) = 2
Simulating(p, r) == proc[p].ri \in DOMAIN bracket[proc[p].b].regions /\ Cur(p) = r

\* C17: in a region of two entrants with the round-1 values 1.0 and 0.0
\* every matchup is won by the first entrant, the simulation ends without an
\* exception, and the list of the last round holds the first entrant alone.
C17_FirstEntrantWins ==
    \A r \in DOMAIN region : \A p \in DOMAIN proc :
        (TwoEntrants(r) /\ Simulating(p, r)) =>
            /\ proc[p].last # NoPick => proc[p].last.winner = region[r].teams[1]
            /\ proc[p].pc # "raised"
            /\ Simulated(r) =>
                  region[r].teams_by_round[max_region_round] = <<region[r].teams[1]>>

\* What the code does in C17's case: the one matchup, the play-in of the two
\* entrants, is won by the first entrant at every draw and round 1 holds
\* that entrant alone; the rounds 2 to 5 are recorded empty, and
\* Bracket.simulate ends in IndexError at teams_by_round[5][0].
C17_WinsMatchupOnly ==
    \A r \in DOMAIN region : \A p \in DOMAIN proc :
        (TwoEntrants(r) /\ Simulating(p, r)) =>
            /\ proc[p].last # NoPick =>
                  /\ proc[p].last.winner = region[r].teams[1]
                  /\ proc[p].last.round_number = 1
            /\ \A k \in DOMAIN region[r].teams_by_round :
                  region[r].teams_by_round[k] = IF k = 1 THEN <<region[r].teams[1]>> ELSE <<>>
            /\ proc[p].pc = "raised" => (Simulated(r) /\ proc[p].err = "IndexError")
            /\ proc[p].pc \notin {"semi1", "semi2", "final", "return"}

\* The teams of the list ts are in ascending order of seed
AscendingSeed(ts) == \A i \in 1..(Len(ts) - 1) : seed(ts[i]) <= seed(ts[i + 1])

\* C18: when Region.simulate has finished, the list recorded for each of the
\* rounds 1 to 5 is in ascending order of seed.
C18_AscendingSeedKept ==
    \A r \in DOMAIN region :
        Simulated(r) =>
            \A k \in 1..max_region_round : AscendingSeed(region[r].teams_by_round[k])

\* What the code does in C18's case: the list of round 1 is recorded in the
\* order in which the dict round2_teams holds the seeds, each later list in
\* ascending order of seed, and the sort at the head of the next round puts
\* that same list in ascending order of seed_slot.
C18_ResortedBySlot ==
    \A p \in DOMAIN proc : \A r \in DOMAIN region :
        Simulating(p, r) =>
            /\ (proc[p].pc = "round" /\ proc[p].round_number >= 3) =>
                  AscendingSeed(region[r].teams_by_round[proc[p].round_number - 1])
            /\ (proc[p].pc = "round" /\ proc[p].round_number = 2) =>
                  LET first == region[r].teams_by_round[1]
                      orig == Groups(r)
                  IN  [k \in DOMAIN first |-> seed(first[k])]
                        = [g \in DOMAIN orig |-> seed(orig[g][1])]
            /\ (proc[p].pc = "match" /\ proc[p].this_round_teams = <<>>) =>
                  LET prev == region[r].teams_by_round[proc[p].round_number - 1]
                  IN  \A i \in 1..(Len(prev) - 1) :
                          seed_slot[prev[i]] <= seed_slot[prev[i + 1]]

\* The seed_slots of the teams of the list ts
Slots(ts) == {seed_slot[ts[i]] : i \in DOMAIN ts}

\* C19: in a region of the 16 seeds, when round k has been recorded the
\* seed_slots of its teams are pairwise distinct and are exactly
\* 1..2^(5-k), and the matchups of a round pair the seed_slots that add up
\* to the number of teams plus one, as in the standard bracket.
C19_StandardBracket ==
    \A p \in DOMAIN proc : \A r \in DOMAIN region :
        (Sixteen(r) /\ Simulating(p, r)) =>
            /\ (proc[p].pc = "round" /\ proc[p].round_number >= 2) =>
                  LET k == proc[p].round_number - 1
                      ts == region[r].teams_by_round[k]
                  IN  /\ Slots(ts) = 1..Pow2(max_region_round - k)
                      /\ Cardinality(Slots(ts)) = Len(ts)
            /\ (proc[p].pc = "match" /\ proc[p].this_round_teams = <<>>) =>
                  \A j \in DOMAIN proc[p].pairs :
                      seed_slot[proc[p].pairs[j][1]] + seed_slot[proc[p].pairs[j][2]]
                          = Pow2(max_region_round + 1 - proc[p].round_number) + 1

\* What the code does in C19's case: when round k has been recorded the
\* seed_slots of its teams are pairwise distinct, none is above the team's
\* seed, and round 1 has exactly the slots 1..16.
C19_DistinctSlots ==
    \A p \in DOMAIN proc : \A r \in DOMAIN region :
        (Sixteen(r) /\ Simulating(p, r)
         /\ proc[p].pc = "round" /\ proc[p].round_number >= 2) =>
                LET k == proc[p].round_number - 1
                    ts == region[r].teams_by_round[k]
                IN  /\ Cardinality(Slots(ts)) = Len(ts)
                    /\ \A i \in DOMAIN ts : seed_slot[ts[i]] <= seed(ts[i])
                    /\ k = 1 => Slots(ts) = 1..16

\* C20: when the desired champion has a probability above 0 in each of its
\* matchups, simulate_champion eventually returns, and whenever it has
\* returned str(self.champion) is the desired name.
C20_EventuallyReturns ==
    /\ Winnable => <>(\A j \in Jobs \cap DOMAIN proc : Returned(j))
    /\ [](\A j \in Jobs \cap DOMAIN proc :
            Returned(j) => str(bracket[proc[j].b].champion) = desired)

\* A call that returned after at least one simulation with another champion
C20_Witness ==
    /\ Winnable
    /\ \E j \in Jobs \cap DOMAIN proc :
            /\ Returned(j)
            /\ proc[j].calls >= 2
            /\ str(bracket[proc[j].b].champion) = desired

====
